---------------------------- MODULE Spec2Model ----------------------------
(***************************************************************************)
(* State-machine model of the push-button sensor node (src/application.c). *)
(*                                                                         *)
(* The application is a set of event handlers that the SDK calls: the      *)
(* button driver, the thermometer and accelerometer drivers, the battery   *)
(* module and the scheduler.  The handlers are translated from             *)
(* application.c.  The SDK drivers and the scheduler are not part of the   *)
(* sources at hand; what the model needs of them (which events the button  *)
(* driver delivers, when a registered task runs) follows spec.md.          *)
(*                                                                         *)
(* Time is the tick counter read by twr_tick_get().  The instants at which *)
(* the drivers deliver their update events are inputs of the model: an     *)
(* update event may arrive at any tick.  The update intervals configured   *)
(* by the application are kept as state.                                   *)
(*                                                                         *)
(* Temperatures are counted in sensor steps of 1/16 degree Celsius, the    *)
(* resolution of the TMP112; such values and their differences are exact   *)
(* in single-precision floating point.                                     *)
(***************************************************************************)
EXTENDS Integers, Sequences, FiniteSets

VARIABLES
    now,                        \* value of twr_tick_get()
    n_adv,                      \* number of time steps taken (bounds the model)
    phase,                      \* button driver: "Idle", "Pressed", "HeldReported"
    hold_task,                  \* button driver: the one-shot hold timer task
    n_press,                    \* number of presses so far (bounds the model)
    button_click_count,         \* application.c:29
    button_hold_count,          \* application.c:30
    tick_start_button_press,    \* application.c:33
    button_hold_event,          \* application.c:35
    tick_temperature_report,    \* application.c:38
    last_published_temperature, \* application.c:132 (function-local static)
    last_face,                  \* application.c:181 (function-local static)
    vec,                        \* history: the last acceleration vector read
    last_orient,                \* history: <<face>> of the last Orientation message, <<>> if none
    tmp112_update_interval,     \* interval configured in the thermometer driver
    lis2dh12_update_interval,   \* interval configured in the accelerometer driver
    exit_task,                  \* scheduler entry of exit_service_mode_task
    ev,                         \* history: the event handled by the last step
    wr,                         \* history: messages the last step wrote to the UART
    cycle_log,                  \* history: button messages since the last PRESS
    n_clicked,                  \* history: number of Button messages since startup
    samples,                    \* history: successful temperature reads (0, 1, 2 = more)
    last_sample_tick,           \* history: tick of the last successful temperature read
    sample_gap,                 \* history: ticks between the last two successful reads
    emitted,                    \* history: a Temperature message was written
    last_emit_tick,             \* history: tick of the last Temperature message
    emit_gap,                   \* history: ticks between the last two Temperature messages
    last_emitted,               \* history: value of the last Temperature message
    exit_runs,                  \* history: invocations of exit_service_mode_task
    tasks,                      \* scheduler: the task table
    next_seq,                   \* scheduler: number of the next registration
    invoked,                    \* history: the tasks invoked by run_due since the last (un)register
    killed,                     \* history: the tasks unregistered so far
    hdac,                       \* the DAC handle: State, ErrorCode, Lock
    dac_call                    \* history: the last call of the DAC driver

vars == <<now, n_adv, phase, hold_task, n_press, button_click_count,
          button_hold_count, tick_start_button_press, button_hold_event,
          tick_temperature_report, last_published_temperature, last_face, vec,
          last_orient,
          tmp112_update_interval, lis2dh12_update_interval, exit_task,
          ev, wr, cycle_log, n_clicked, samples, last_sample_tick, sample_gap, emitted,
          last_emit_tick, emit_gap, last_emitted, exit_runs, tasks, next_seq,
          invoked, killed, hdac, dac_call>>

timeVars == <<now, n_adv>>
driverVars == <<phase, hold_task, n_press>>
buttonVars == <<button_click_count, button_hold_count,
                tick_start_button_press, button_hold_event>>
gateVars == <<tick_temperature_report, last_published_temperature>>
pollVars == <<tmp112_update_interval, lis2dh12_update_interval>>
schedVars == <<tasks, next_seq, invoked, killed>>
dacVars == <<hdac, dac_call>>
nodeVars == <<now, n_adv, phase, hold_task, n_press, button_click_count,
              button_hold_count, tick_start_button_press, button_hold_event,
              tick_temperature_report, last_published_temperature, last_face,
              vec, last_orient, tmp112_update_interval,
              lis2dh12_update_interval, exit_task, ev, wr, cycle_log,
              n_clicked, samples, last_sample_tick, sample_gap, emitted,
              last_emit_tick, emit_gap, last_emitted, exit_runs, tasks,
              next_seq, invoked, killed>>
tempHist == <<samples, last_sample_tick, sample_gap, emitted, last_emit_tick,
              emit_gap, last_emitted>>

----------------------------------------------------------------------------
(* Program constants (application.c:4-11), in ticks of one millisecond.    *)

SERVICE_MODE_INTERVAL == 900000
TEMPERATURE_PUB_INTERVAL == 900000
TEMPERATURE_UPDATE_SERVICE_INTERVAL == 1000
TEMPERATURE_UPDATE_NORMAL_INTERVAL == 10000
ACCELEROMETER_UPDATE_SERVICE_INTERVAL == 1000
ACCELEROMETER_UPDATE_NORMAL_INTERVAL == 10000

\* TEMPERATURE_PUB_DIFFERENCE is 0.2f: PUB_DIFFERENCE_TENTHS tenths of a degree.
PUB_DIFFERENCE_TENTHS == 2

\* uint16_t counters wrap modulo 2^16.
UINT16_MOD == 65536

\* Sensor steps per degree Celsius (TMP112 resolution 0.0625 degree).
STEPS_PER_DEGREE == 16

\* Hold threshold of the button driver.
HOLD_TIME == 2000

----------------------------------------------------------------------------
(* Bounds of the model.                                                    *)

MaxAdvance == 4
MaxCoarse == 2
MaxPress == 2

\* Time steps of the specifications.
CoarseSteps == {SERVICE_MODE_INTERVAL}
TempSteps == {10, TEMPERATURE_PUB_INTERVAL - 10}
ButtonSteps == {10, HOLD_TIME - 10}

\* Temperature readings: 20.0, 20.1875 and 20.25 degrees, in sensor steps.
Temps == {320, 323, 324}
CoarseTemps == {320, 324}

\* Battery voltage readings, in hundredths of a volt.
Voltages == {300}

\* Acceleration readings, in tenths of g.
Vectors == {<<0, 0, 0>>, <<0, 0, 10>>, <<0, 0, -10>>, <<10, 0, 0>>}

\* Acceleration readings of the accelerometer's own specification: the six
\* axis directions, tilted, weak and ambiguous vectors.
AxisValues == {-10, -4, 0, 4, 10}
AllVectors == {<<x, y, z>> : x \in AxisValues, y \in AxisValues, z \in AxisValues}

\* A float is <<v>>; NAN is the empty tuple.
NaN == <<>>
Float(v) == <<v>>

Msg(k, v) == [kind |-> k, val |-> v]
Ev(type, num, tag) == [type |-> type, num |-> num, tag |-> tag]

Abs(x) == IF x < 0 THEN -x ELSE x

----------------------------------------------------------------------------
(* tmp112_event_handler (application.c:111-164).                           *)

\* a != b on floats: true whenever an operand is NaN (application.c:135).
FloatNe(a, b) == IF a = NaN \/ b = NaN THEN TRUE ELSE a # b

\* Mutant: the difference is compared without fabsf.
DiffSignificantSigned(a, b) ==
    IF a = NaN \/ b = NaN THEN FALSE
    ELSE (a[1] - b[1]) * 10 >= PUB_DIFFERENCE_TENTHS * STEPS_PER_DEGREE

\* fabsf(a - b) >= TEMPERATURE_PUB_DIFFERENCE: false when a - b is NaN.
DiffSignificant(a, b) ==
    IF a = NaN \/ b = NaN THEN FALSE
    ELSE Abs(a[1] - b[1]) * 10 >= PUB_DIFFERENCE_TENTHS * STEPS_PER_DEGREE

\* Mutant: the report is due only strictly after the scheduled tick.
TimeUpLate(t, report) == t > report

\* twr_tick_get() >= tick_temperature_report
TimeUp(t, report) == t >= report

\* The value of `publish' at application.c:146.
Publish(t, temperature, last, report) ==
    \/ TimeUp(t, report)
    \/ (FloatNe(last, NaN) /\ DiffSignificant(temperature, last))

\* Mutant: the next report is scheduled at the interval, not after it.
NextReportAbsolute(t) == TEMPERATURE_PUB_INTERVAL

\* Mutant: the next report is scheduled one sensor update interval ahead.
NextReportShort(t) == t + TEMPERATURE_UPDATE_NORMAL_INTERVAL

\* twr_tick_get() + TEMPERATURE_PUB_INTERVAL
NextReport(t) == t + TEMPERATURE_PUB_INTERVAL

\* Mutant: the first report is scheduled one publish interval after start.
InitialReportLate == TEMPERATURE_PUB_INTERVAL

\* Initial value of tick_temperature_report.
InitialReport == 0

\* Mutant: the value of every sample is remembered.
RememberAlways(publish, read, last) == read

\* last_published_temperature after a sample: assigned inside if (publish)
\* only (application.c:146-157).
Remember(publish, read, last) == IF publish THEN read ELSE last

\* The handler on a gate g = [report, last]: the new gate and the output.
\* read is <<v>> for a successful read of v and NaN for a failed read.
tmp112_event_handler(g, event, read, t) ==
    IF event = "UPDATE" /\ read # NaN
    THEN LET publish == Publish(t, read, g.last, g.report)
         IN  [report |-> IF publish THEN NextReport(t) ELSE g.report,
              last |-> Remember(publish, read, g.last),
              out |-> IF publish THEN <<Msg("Temperature", read[1])>> ELSE <<>>]
    ELSE [report |-> g.report, last |-> g.last, out |-> <<>>]

Sat2(n) == IF n >= 2 THEN 2 ELSE n

\* The thermometer driver delivers an event to the handler.
Tmp112Event(values) ==
    \E event \in {"UPDATE", "ERROR"} :
    \E read \in {Float(v) : v \in values} \cup {NaN} :
        LET ok == event = "UPDATE" /\ read # NaN
            r == tmp112_event_handler(
                     [report |-> tick_temperature_report,
                      last |-> last_published_temperature], event, read, now)
            pub == r.out # <<>>
        IN  /\ (event = "ERROR" => read = NaN)
            /\ tick_temperature_report' = r.report
            /\ last_published_temperature' = r.last
            /\ wr' = r.out
            /\ ev' = Ev("tmp112", IF ok THEN read[1] ELSE 0,
                        IF ok THEN "ok" ELSE IF event = "UPDATE" THEN "fail" ELSE "error")
            /\ samples' = IF ok THEN Sat2(samples + 1) ELSE samples
            /\ last_sample_tick' = IF ok THEN now ELSE last_sample_tick
            /\ sample_gap' = IF ok THEN (IF samples = 0 THEN 0 ELSE now - last_sample_tick)
                             ELSE sample_gap
            /\ emitted' = (emitted \/ pub)
            /\ last_emit_tick' = IF pub THEN now ELSE last_emit_tick
            /\ emit_gap' = IF pub THEN (IF emitted THEN now - last_emit_tick ELSE 0)
                           ELSE emit_gap
            /\ last_emitted' = IF pub THEN r.out[1].val ELSE last_emitted
            /\ UNCHANGED <<dacVars, schedVars, timeVars, driverVars, buttonVars, last_face, vec, last_orient, pollVars,
                           exit_task, cycle_log, n_clicked, exit_runs>>

----------------------------------------------------------------------------
(* Time.                                                                   *)

\* The tick counter advances by d; no handler runs.
Advance(steps, max) ==
    \E d \in steps :
        /\ n_adv < max
        /\ now' = now + d
        /\ n_adv' = n_adv + 1
        /\ ev' = Ev("advance", d, "")
        /\ wr' = <<>>
        /\ UNCHANGED <<dacVars, schedVars, driverVars, buttonVars, gateVars, last_face, vec, last_orient, pollVars,
                       exit_task, cycle_log, n_clicked, tempHist, exit_runs>>

----------------------------------------------------------------------------
(* button_event_handler (application.c:41-90).                             *)

\* Mutant: the counter is incremented twice.
CountIncTwice(c) == (c + 2) % UINT16_MOD

\* Mutant: the counter stops at the largest uint16_t value.
CountIncSaturating(c) == IF c = UINT16_MOD - 1 THEN c ELSE c + 1

\* ++ on a uint16_t counter (application.c:49, 62).
CountInc(c) == (c + 1) % UINT16_MOD

\* Mutant: the duration is reported on every RELEASE.
ReleaseReportsAlways(hold_event) == TRUE

\* The condition of application.c:81.
ReleaseReports(hold_event) == hold_event

\* Mutant: the press tick of the previous press is kept.
PressTickStale(t, start) == start

\* tick_start_button_press after a PRESS (application.c:77).
PressTick(t, start) == t

\* Mutant: the duration is counted from tick 0.
HoldDurationFromStart(t, start) == t

\* Mutant: the operands of the subtraction are exchanged.
HoldDurationSwapped(t, start) == start - t

\* hold_duration (application.c:83); the ticks of the model fit an int.
HoldDuration(t, start) == t - start

\* Mutant: the click count is printed as it was before the increment.
ClickPrintedOld(old) == old

\* The click count printed after button_click_count++ (application.c:49-53).
ClickPrinted(old) == CountInc(old)

\* Mutant: a RELEASE clears the flag as a PRESS does.
HoldEventAfterReleaseClears(event, flag) ==
    CASE event = "HOLD" -> TRUE
      [] event \in {"PRESS", "RELEASE"} -> FALSE
      [] OTHER -> flag

\* button_hold_event after the handler of an event: set by HOLD
\* (application.c:70), reset by PRESS (application.c:75), and not assigned
\* by the other branches.
HoldEventAfter(event, flag) ==
    CASE event = "HOLD" -> TRUE
      [] event = "PRESS" -> FALSE
      [] OTHER -> flag

\* The handler on the button state b = [click, hold, start, hold_event, out]:
\* the new state, with the messages written appended to out.
button_event_handler(b, event, t) ==
    CASE event = "CLICK" ->
           [b EXCEPT !.click = CountInc(b.click),
                     !.out = b.out \o <<Msg("Button", ClickPrinted(b.click))>>,
                     !.hold_event = HoldEventAfter(event, b.hold_event)]
      [] event = "HOLD" ->
           [b EXCEPT !.hold = CountInc(b.hold),
                     !.out = b.out \o <<Msg("Button_hold", CountInc(b.hold))>>,
                     !.hold_event = HoldEventAfter(event, b.hold_event)]
      [] event = "PRESS" ->
           [b EXCEPT !.hold_event = HoldEventAfter(event, b.hold_event),
                     !.start = PressTick(t, b.start)]
      [] event = "RELEASE" ->
           IF ReleaseReports(b.hold_event)
           THEN [b EXCEPT !.out = b.out \o
                     <<Msg("Button_hold_duration", HoldDuration(t, b.start))>>,
                          !.hold_event = HoldEventAfter(event, b.hold_event)]
           ELSE [b EXCEPT !.hold_event = HoldEventAfter(event, b.hold_event)]
      [] OTHER -> b

ButtonState ==
    [click |-> button_click_count, hold |-> button_hold_count,
     start |-> tick_start_button_press, hold_event |-> button_hold_event,
     out |-> <<>>]

\* The number of Button messages in a sequence of messages.
Clicks(out) == Cardinality({k \in 1 .. Len(out) : out[k].kind = "Button"})

\* The application state and the output after the driver's handler calls.
SetButton(b) ==
    /\ button_click_count' = b.click
    /\ button_hold_count' = b.hold
    /\ tick_start_button_press' = b.start
    /\ button_hold_event' = b.hold_event
    /\ wr' = b.out

----------------------------------------------------------------------------
(* The button driver: the state machine of spec.md 4.2, which turns edges  *)
(* of the input and its hold timer into calls of the event handler.        *)

NoTask == [active |-> FALSE, due |-> 0]

\* Mutant: a release edge is not checked against the current phase.
ReleaseEventsUnchecked(ph) ==
    IF ph = "Pressed" THEN <<"RELEASE", "CLICK">> ELSE <<"RELEASE">>

\* The events a release edge delivers in phase ph.
ReleaseEvents(ph) ==
    CASE ph = "Pressed" -> <<"RELEASE", "CLICK">>
      [] ph = "HeldReported" -> <<"RELEASE">>
      [] OTHER -> <<>>

RECURSIVE Deliver(_, _, _)
Deliver(b, events, t) ==
    IF events = <<>> THEN b
    ELSE Deliver(button_event_handler(b, Head(events), t), Tail(events), t)

\* on_button_edge(TRUE)
ButtonPress ==
    /\ ev' = Ev("press", 0, phase)
    /\ IF phase = "Idle"
       THEN /\ n_press < MaxPress
            /\ phase' = "Pressed"
            /\ hold_task' = [active |-> TRUE, due |-> now + HOLD_TIME]
            /\ n_press' = n_press + 1
            /\ SetButton(button_event_handler(ButtonState, "PRESS", now))
            /\ cycle_log' = <<>>
            /\ n_clicked' = n_clicked
       ELSE /\ wr' = <<>>
            /\ UNCHANGED <<driverVars, buttonVars, cycle_log, n_clicked>>
    /\ UNCHANGED <<dacVars, schedVars, timeVars, gateVars, last_face, vec, last_orient, pollVars, exit_task, tempHist,
                   exit_runs>>

\* on_button_edge(FALSE)
ButtonRelease ==
    LET b == Deliver(ButtonState, ReleaseEvents(phase), now)
    IN  /\ ev' = Ev("release", 0, phase)
        /\ phase' = "Idle"
        /\ hold_task' = NoTask
        /\ SetButton(b)
        /\ cycle_log' = cycle_log \o b.out
        /\ n_clicked' = n_clicked + Clicks(b.out)
        /\ UNCHANGED <<dacVars, schedVars, timeVars, n_press, gateVars, last_face, vec, last_orient, pollVars,
                       exit_task, tempHist, exit_runs>>

\* The hold timer task runs: it is due and the button is still pressed.
ButtonHoldTimer ==
    /\ hold_task.active
    /\ now >= hold_task.due
    /\ phase = "Pressed"
    /\ LET b == button_event_handler(ButtonState, "HOLD", now)
       IN  /\ SetButton(b)
           /\ cycle_log' = cycle_log \o b.out
           /\ n_clicked' = n_clicked + Clicks(b.out)
    /\ ev' = Ev("hold", 0, phase)
    /\ phase' = "HeldReported"
    /\ hold_task' = NoTask
    /\ UNCHANGED <<dacVars, schedVars, timeVars, n_press, gateVars, last_face, vec, last_orient, pollVars, exit_task,
                   tempHist, exit_runs>>

----------------------------------------------------------------------------
(* lis2dh12_event_handler (application.c:167-205) and the dice.            *)

TWR_DICE_FACE_UNKNOWN == 0

\* Smallest magnitude, in tenths of g, at which an axis decides the face.
DICE_MIN_MAGNITUDE == 5

\* Mutant: the sign of the largest axis is ignored.
DiceFaceUnsigned(v) ==
    LET ax == Abs(v[1])
        ay == Abs(v[2])
        az == Abs(v[3])
    IN  CASE az >= DICE_MIN_MAGNITUDE /\ az > ax /\ az > ay -> 1
          [] ax >= DICE_MIN_MAGNITUDE /\ ax > ay /\ ax > az -> 2
          [] ay >= DICE_MIN_MAGNITUDE /\ ay > ax /\ ay > az -> 3
          [] OTHER -> TWR_DICE_FACE_UNKNOWN

\* The face of a vector: the signed axis of largest magnitude, if any axis
\* is large enough; faces 1 and 6 are +Z (up) and -Z (down).
DiceFace(v) ==
    LET ax == Abs(v[1])
        ay == Abs(v[2])
        az == Abs(v[3])
    IN  CASE az >= DICE_MIN_MAGNITUDE /\ az > ax /\ az > ay ->
               IF v[3] > 0 THEN 1 ELSE 6
          [] ax >= DICE_MIN_MAGNITUDE /\ ax > ay /\ ax > az ->
               IF v[1] > 0 THEN 2 ELSE 5
          [] ay >= DICE_MIN_MAGNITUDE /\ ay > ax /\ ay > az ->
               IF v[2] > 0 THEN 3 ELSE 4
          [] OTHER -> TWR_DICE_FACE_UNKNOWN

\* Mutant: an unknown face is reported as a changed one is.
FaceChangedOrUnknown(last, face) == last # face \/ face = TWR_DICE_FACE_UNKNOWN

\* Mutant: the face is reported whether or not it changed.
FaceChangedAlways(last, face) == TRUE

\* last_face != face (application.c:187)
FaceChanged(last, face) == last # face

\* The handler on last_face: the new last_face and the output.
\* read is <<vector>> for a successful read and <<>> for a failed read.
lis2dh12_event_handler(last, event, read) ==
    IF event = "UPDATE" /\ read # <<>> /\ FaceChanged(last, DiceFace(read[1]))
    THEN [last |-> DiceFace(read[1]),
          out |-> <<Msg("Orientation", DiceFace(read[1]))>>]
    ELSE [last |-> last, out |-> <<>>]

\* The accelerometer driver delivers an event to the handler.
Lis2dh12Event(vectors) ==
    \E event \in {"UPDATE", "ERROR"} :
    \E read \in {<<v>> : v \in vectors} \cup {<<>>} :
        LET ok == event = "UPDATE" /\ read # <<>>
            r == lis2dh12_event_handler(last_face, event, read)
        IN  /\ (event = "ERROR" => read = <<>>)
            /\ last_face' = r.last
            /\ vec' = IF ok THEN read[1] ELSE vec
            /\ last_orient' = IF r.out # <<>> THEN <<r.out[1].val>> ELSE last_orient
            /\ wr' = r.out
            /\ ev' = Ev("lis2dh12", IF ok THEN DiceFace(read[1]) ELSE 0,
                        IF ok THEN "ok" ELSE IF event = "UPDATE" THEN "fail" ELSE "error")
            /\ UNCHANGED <<dacVars, schedVars, timeVars, driverVars, buttonVars, gateVars, pollVars,
                           exit_task, cycle_log, n_clicked, tempHist, exit_runs>>

----------------------------------------------------------------------------
(* battery_event_handler (application.c:93-108).                           *)

\* Mutant: the result of the read is not tested, and the voltage is written
\* whatever it is.
battery_event_handler_unchecked(event, read) ==
    IF event = "UPDATE"
    THEN <<Msg("Battery", IF read # <<>> THEN read[1] ELSE 0)>>
    ELSE <<>>

\* The output of the handler; read is <<v>> or <<>> for a failed read.
battery_event_handler(event, read) ==
    IF event = "UPDATE" /\ read # <<>>
    THEN <<Msg("Battery", read[1])>>
    ELSE <<>>

\* The battery module delivers an event to the handler.
BatteryEvent ==
    \E read \in {<<v>> : v \in Voltages} \cup {<<>>} :
        /\ wr' = battery_event_handler("UPDATE", read)
        /\ ev' = Ev("battery", IF read # <<>> THEN read[1] ELSE 0,
                    IF read # <<>> THEN "ok" ELSE "fail")
        /\ UNCHANGED <<dacVars, schedVars, timeVars, driverVars, buttonVars, gateVars, last_face, vec, last_orient,
                       pollVars, exit_task, cycle_log, n_clicked, tempHist, exit_runs>>

----------------------------------------------------------------------------
(* Service mode (application.c:207-218, 235-248).                          *)

\* Mutant: the interval arguments of the two call sites are exchanged.
UpdateIntervalArgSwapped(sensor, site) ==
    CASE sensor = "tmp112" /\ site = "init" -> TEMPERATURE_UPDATE_NORMAL_INTERVAL
      [] sensor = "tmp112" /\ site = "exit" -> TEMPERATURE_UPDATE_SERVICE_INTERVAL
      [] sensor = "lis2dh12" /\ site = "init" -> ACCELEROMETER_UPDATE_NORMAL_INTERVAL
      [] sensor = "lis2dh12" /\ site = "exit" -> ACCELEROMETER_UPDATE_SERVICE_INTERVAL

\* The interval passed to the sensor's set_update_interval in
\* application_init ("init") and in exit_service_mode_task ("exit").
UpdateIntervalArg(sensor, site) ==
    CASE sensor = "tmp112" /\ site = "init" -> TEMPERATURE_UPDATE_SERVICE_INTERVAL
      [] sensor = "tmp112" /\ site = "exit" -> TEMPERATURE_UPDATE_NORMAL_INTERVAL
      [] sensor = "lis2dh12" /\ site = "init" -> ACCELEROMETER_UPDATE_SERVICE_INTERVAL
      [] sensor = "lis2dh12" /\ site = "exit" -> ACCELEROMETER_UPDATE_NORMAL_INTERVAL

\* Mutant: the task does not unregister itself.
exit_service_mode_task_stays(p) ==
    [tmp |-> UpdateIntervalArg("tmp112", "exit"),
     acc |-> UpdateIntervalArg("lis2dh12", "exit"),
     registered |-> p.registered]

\* The task on p = [tmp, acc, registered]: the sensors' intervals and
\* whether the current task is still registered.
exit_service_mode_task(p) ==
    [tmp |-> UpdateIntervalArg("tmp112", "exit"),
     acc |-> UpdateIntervalArg("lis2dh12", "exit"),
     registered |-> FALSE]

\* twr_scheduler_register(exit_service_mode_task, NULL, SERVICE_MODE_INTERVAL)
\* at tick t: the task is due one delay after its registration.
RegisterExitTask(t) ==
    [active |-> TRUE, due |-> t + SERVICE_MODE_INTERVAL,
     interval |-> SERVICE_MODE_INTERVAL]

\* The scheduler runs exit_service_mode_task: the task is active and due.
\* A task still registered after its handler is due again one interval later.
RunExitTask ==
    /\ exit_task.active
    /\ now >= exit_task.due
    /\ LET r == exit_service_mode_task(
                    [tmp |-> tmp112_update_interval,
                     acc |-> lis2dh12_update_interval, registered |-> TRUE])
       IN  /\ tmp112_update_interval' = r.tmp
           /\ lis2dh12_update_interval' = r.acc
           /\ exit_task' = IF r.registered
                           THEN [exit_task EXCEPT !.due = @ + exit_task.interval]
                           ELSE [exit_task EXCEPT !.active = FALSE]
    /\ exit_runs' = exit_runs + 1
    /\ ev' = Ev("exit", 0, "")
    /\ wr' = <<>>
    /\ UNCHANGED <<dacVars, schedVars, timeVars, driverVars, buttonVars, gateVars, last_face, vec, last_orient,
                   cycle_log, n_clicked, tempHist>>

----------------------------------------------------------------------------
(* The scheduler: the task table, register, unregister and run_due.        *)

\* Number of slots of the task table.
SchedCapacity == 3

\* Largest number of registrations into a free slot, and of ticks of the
\* scheduler alone.
MaxRegister == 3
MaxTicks == 3

Slots == 1 .. SchedCapacity

\* Time steps between the calls.
SchedSteps == {1}

\* The registrations tried, with their delays: a handler that does nothing,
\* exit_service_mode_task, one that unregisters the task of the next slot,
\* and one that registers a task that does nothing.
RegKinds ==
    {[handler |-> "noop", delay |-> 1], [handler |-> "noop", delay |-> 2],
     [handler |-> "exit", delay |-> 1], [handler |-> "kill", delay |-> 1],
     [handler |-> "spawn", delay |-> 1]}

\* A slot without a task. first_due and fires are history: the due tick at
\* registration and the number of times the task was rescheduled.
NoSlot ==
    [active |-> FALSE, handler |-> "", due |-> 0, interval |-> 0, seq |-> 0,
     first_due |-> 0, fires |-> 0]

EmptyTable == [i \in Slots |-> NoSlot]

\* The scheduler's state as the operators below pass it on: the table, the
\* registration number, the sensors' intervals, the log of invocations, the
\* tasks unregistered, and the result of the last register.
SchedStateOf(tab, nseq, tmp, acc, kl) ==
    [tab |-> tab, nseq |-> nseq, tmp |-> tmp, acc |-> acc, inv |-> <<>>,
     killed |-> kl, ok |-> TRUE]

FreeSlots(tab) == {i \in Slots : ~tab[i].active}

\* Mutant: a full table gives its first slot to the new task.
RegisterSlotsReused(tab) == IF FreeSlots(tab) = {} THEN {1} ELSE FreeSlots(tab)

\* The slots a registration may take.
RegisterSlots(tab) == FreeSlots(tab)

\* register(handler, param, delay) at tick t: the task takes the first free
\* slot and is due at t + delay; its interval is the delay. Without a free
\* slot the registration fails (CapacityExceeded) and changes nothing.
register(st, handler, delay, t) ==
    IF RegisterSlots(st.tab) = {}
    THEN [st EXCEPT !.ok = FALSE]
    ELSE LET i == CHOOSE i \in RegisterSlots(st.tab) :
                      \A j \in RegisterSlots(st.tab) : i <= j
         IN  [st EXCEPT !.tab[i] = [active |-> TRUE, handler |-> handler,
                                    due |-> t + delay, interval |-> delay,
                                    seq |-> st.nseq, first_due |-> t + delay,
                                    fires |-> 0],
                        !.nseq = @ + 1,
                        !.ok = TRUE]

\* unregister(id): an active task is deactivated; an inactive id changes
\* nothing. The fields of an inactive slot are never read, and are cleared.
unregister(st, id) ==
    IF st.tab[id].active
    THEN [st EXCEPT !.tab[id] = NoSlot, !.killed = @ \cup {st.tab[id].seq}]
    ELSE st

\* Mutant: the task unregisters the first task of the table.
UnregisterArgFirst(current) == 1

\* twr_scheduler_unregister(twr_scheduler_get_current_task_id())
\* (application.c:217): the id passed.
UnregisterArg(current) == current

\* The handler of the task in slot i, at tick t.
RunHandler(st, i, t) ==
    LET task == st.tab[i]
    IN  CASE task.handler = "exit" ->
               LET r == exit_service_mode_task(
                            [tmp |-> st.tmp, acc |-> st.acc, registered |-> TRUE])
                   st1 == [st EXCEPT !.tmp = r.tmp, !.acc = r.acc]
               IN  IF r.registered THEN st1
                   ELSE unregister(st1, UnregisterArg(i))
          [] task.handler = "kill" -> unregister(st, (i % SchedCapacity) + 1)
          [] task.handler = "spawn" -> register(st, "noop", task.interval, t)
          [] OTHER -> st

\* Mutant: every task keeps the interval of its registration.
IntervalOfRegistration(st, task) == task.interval

\* The recurring interval of a task: a sensor's task has the interval
\* configured for the sensor, any other task the one of its registration.
IntervalOf(st, task) ==
    CASE task.handler = "tmp112" -> st.tmp
      [] task.handler = "lis2dh12" -> st.acc
      [] OTHER -> task.interval

\* Mutant: a task is rescheduled from the tick of the call.
NextDueFromNow(due, interval, t) == t + interval

\* The due tick of a recurring task after a firing: previous_due + interval.
NextDue(due, interval, t) == due + interval

\* One invocation: the handler runs, and a task that is still registered
\* after it is rescheduled.
Invoke(st, i, t) ==
    LET task == st.tab[i]
        st0 == [st EXCEPT !.inv = Append(@, [id |-> i, seq |-> task.seq,
                                             due |-> task.due])]
        st1 == RunHandler(st0, i, t)
    IN  IF ~(st1.tab[i].active /\ st1.tab[i].seq = task.seq) THEN st1
        ELSE [st1 EXCEPT !.tab[i].due = NextDue(task.due, IntervalOf(st1, task), t),
                         !.tab[i].fires = @ + 1]

\* Mutant: the tasks are taken in the order of their registration.
BeforeByRegistration(a, b) == a.seq < b.seq

\* Task a is invoked before task b: by due tick, then by registration.
Before(a, b) == a.due < b.due \/ (a.due = b.due /\ a.seq < b.seq)

\* The slots of the active tasks due at tick t.
DueSet(tab, t) == {i \in Slots : tab[i].active /\ tab[i].due <= t}

\* The tasks of the slots S in the order of their invocation.
RECURSIVE SortTasks(_, _)
SortTasks(tab, S) ==
    IF S = {} THEN <<>>
    ELSE LET m == CHOOSE i \in S : \A j \in S \ {i} : Before(tab[i], tab[j])
         IN  <<[id |-> m, seq |-> tab[m].seq]>> \o SortTasks(tab, S \ {m})

\* Mutant: a task of the snapshot is invoked whatever became of its slot.
StillRegisteredUnchecked(tab, e) == TRUE

\* The task e of the snapshot is still the task of its slot.
StillRegistered(tab, e) == tab[e.id].active /\ tab[e.id].seq = e.seq

\* The scan of run_due over the snapshot snap, from its k-th task on.
RECURSIVE RunScan(_, _, _, _)
RunScan(st, snap, k, t) ==
    IF k > Len(snap) THEN st
    ELSE IF StillRegistered(st.tab, snap[k])
         THEN RunScan(Invoke(st, snap[k].id, t), snap, k + 1, t)
         ELSE RunScan(st, snap, k + 1, t)

\* run_due(t): the tasks due are identified first, then invoked in order.
run_due(st, t) == RunScan(st, SortTasks(st.tab, DueSet(st.tab, t)), 1, t)

SchedState ==
    SchedStateOf(tasks, next_seq, tmp112_update_interval,
                 lis2dh12_update_interval, killed)

\* The state of the scheduler after the calls of an action.
SetSched(st) ==
    /\ tasks' = st.tab
    /\ next_seq' = st.nseq
    /\ tmp112_update_interval' = st.tmp
    /\ lis2dh12_update_interval' = st.acc
    /\ killed' = st.killed

\* A registration from outside of the handlers.
Register ==
    /\ next_seq <= MaxRegister \/ FreeSlots(tasks) = {}
    /\ \E kind \in RegKinds :
        LET st == register(SchedState, kind.handler, kind.delay, now)
        IN  /\ SetSched(st)
            /\ ev' = Ev("register", kind.delay,
                        IF st.ok THEN "ok" ELSE "CapacityExceeded")
    /\ invoked' = <<>>
    /\ wr' = <<>>
    /\ UNCHANGED <<dacVars, timeVars, driverVars, buttonVars, gateVars, last_face, vec, last_orient,
                   exit_task, cycle_log, n_clicked, tempHist, exit_runs>>

\* An unregistration from outside of the handlers.
Unregister ==
    /\ \E id \in Slots :
        /\ SetSched(unregister(SchedState, id))
        /\ ev' = Ev("unregister", 0,
                    IF tasks[id].active THEN "active" ELSE "inactive")
    /\ invoked' = <<>>
    /\ wr' = <<>>
    /\ UNCHANGED <<dacVars, timeVars, driverVars, buttonVars, gateVars, last_face, vec, last_orient,
                   exit_task, cycle_log, n_clicked, tempHist, exit_runs>>

\* The main loop calls run_due(now).
RunDue ==
    LET st == run_due(SchedState, now)
    IN  /\ SetSched(st)
        /\ invoked' = st.inv
        /\ ev' = Ev("run_due", 0, "")
        /\ wr' = <<>>
        /\ UNCHANGED <<dacVars, timeVars, driverVars, buttonVars, gateVars, last_face,
                       vec, last_orient, exit_task, cycle_log, n_clicked, tempHist, exit_runs>>

\* The tasks of application_init: the two sensors' sampling tasks (lines
\* 235-243) and exit_service_mode_task (line 248), registered at tick 0.
AppTasks ==
    LET s0 == SchedStateOf(EmptyTable, 1, UpdateIntervalArg("tmp112", "init"),
                           UpdateIntervalArg("lis2dh12", "init"), {})
        s1 == register(s0, "tmp112", s0.tmp, 0)
        s2 == register(s1, "lis2dh12", s1.acc, 0)
    IN  register(s2, "exit", SERVICE_MODE_INTERVAL, 0)

----------------------------------------------------------------------------
(* The DAC driver (stm32l0xx_hal_dac.c): HAL_DAC_Init, HAL_DAC_DeInit and  *)
(* HAL_DAC_Stop on the fields State, ErrorCode and Lock of one handle.     *)

DacStates == {"RESET", "READY", "BUSY", "TIMEOUT", "ERROR"}
DacErrors == {"NONE", "DMAUNDERRUNCH1", "DMA"}
DacLocks == {"UNLOCKED", "LOCKED"}

\* The contents a handle can have: an object that was never initialised
\* holds any of them.
Handles == [State : DacStates, ErrorCode : DacErrors, Lock : DacLocks]

\* A handle with static storage: all fields zero.
ZeroHandle == [State |-> "RESET", ErrorCode |-> "NONE", Lock |-> "UNLOCKED"]

\* The pointer passed to a call: NULL, or the handle (as <<h>>).
NULL == <<>>

\* dac_call: the last call (fn), whether its pointer was NULL, its status,
\* whether it called HAL_DAC_MspInit, and the call before it (prev).
NoCall == [fn |-> "", null |-> FALSE, ret |-> "", msp |-> FALSE, prev |-> ""]

\* Mutant: the low level hardware is initialised on every call.
NeedsMspInitAlways(state) == TRUE

\* hdac->State == HAL_DAC_STATE_RESET (stm32l0xx_hal_dac.c:247)
NeedsMspInit(state) == state = "RESET"

\* HAL_DAC_Init(p): the status returned, the handle after the call, and
\* whether HAL_DAC_MspInit was called.
HAL_DAC_Init(p) ==
    IF p = NULL
    THEN [ret |-> "HAL_ERROR", h |-> p, msp |-> FALSE]
    ELSE LET h == p[1]
             fresh == NeedsMspInit(h.State)
         IN  [ret |-> "HAL_OK",
              h |-> <<[State |-> "READY", ErrorCode |-> "NONE",
                       Lock |-> IF fresh THEN "UNLOCKED" ELSE h.Lock]>>,
              msp |-> fresh]

\* HAL_DAC_DeInit(p): HAL_DAC_MspDeInit is called, and the handle is reset
\* and unlocked.
HAL_DAC_DeInit(p) ==
    IF p = NULL
    THEN [ret |-> "HAL_ERROR", h |-> p, msp |-> FALSE]
    ELSE [ret |-> "HAL_OK",
          h |-> <<[State |-> "RESET", ErrorCode |-> "NONE", Lock |-> "UNLOCKED"]>>,
          msp |-> FALSE]

\* HAL_DAC_Stop(p, Channel) on a handle: the channel is disabled and the
\* state is READY.
HAL_DAC_Stop(p) ==
    [ret |-> "HAL_OK", h |-> <<[p[1] EXCEPT !.State = "READY"]>>, msp |-> FALSE]

\* A call of fn with the pointer p, which is NULL or points to hdac.
DacCall(fn, p, r) ==
    /\ hdac' = IF p = NULL THEN hdac ELSE r.h[1]
    /\ dac_call' = [fn |-> fn, null |-> p = NULL, ret |-> r.ret, msp |-> r.msp,
                    prev |-> IF dac_call.null THEN "NULL" ELSE dac_call.fn]
    /\ UNCHANGED nodeVars

DacInit == \E p \in {NULL, <<hdac>>} : DacCall("Init", p, HAL_DAC_Init(p))

DacDeInit == \E p \in {NULL, <<hdac>>} : DacCall("DeInit", p, HAL_DAC_DeInit(p))

DacStop == DacCall("Stop", <<hdac>>, HAL_DAC_Stop(<<hdac>>))

----------------------------------------------------------------------------
(* The state after application_init, and the specifications.               *)

Init ==
    /\ now = 0
    /\ n_adv = 0
    /\ phase = "Idle"
    /\ hold_task = NoTask
    /\ n_press = 0
    /\ button_click_count = 0
    /\ button_hold_count = 0
    /\ tick_start_button_press = 0
    /\ button_hold_event = FALSE
    /\ tick_temperature_report = InitialReport
    /\ last_published_temperature = NaN
    /\ last_face = TWR_DICE_FACE_UNKNOWN
    /\ vec = <<0, 0, 0>>
    /\ last_orient = <<>>
    /\ tmp112_update_interval = UpdateIntervalArg("tmp112", "init")
    /\ lis2dh12_update_interval = UpdateIntervalArg("lis2dh12", "init")
    /\ exit_task = RegisterExitTask(0)
    /\ ev = Ev("init", 0, "")
    /\ wr = <<>>
    /\ cycle_log = <<>>
    /\ n_clicked = 0
    /\ samples = 0
    /\ last_sample_tick = 0
    /\ sample_gap = 0
    /\ emitted = FALSE
    /\ last_emit_tick = 0
    /\ emit_gap = 0
    /\ last_emitted = 0
    /\ exit_runs = 0
    /\ tasks = AppTasks.tab
    /\ next_seq = AppTasks.nseq
    /\ invoked = <<>>
    /\ killed = {}
    /\ hdac = ZeroHandle
    /\ dac_call = NoCall

\* The whole node, with time advancing in service windows.
Next ==
    \/ Advance(CoarseSteps, MaxCoarse)
    \/ ButtonPress
    \/ ButtonRelease
    \/ ButtonHoldTimer
    \/ Tmp112Event(CoarseTemps)
    \/ Lis2dh12Event(Vectors)
    \/ BatteryEvent
    \/ RunExitTask

Spec == Init /\ [][Next]_vars

\* The thermometer alone, with time advancing in steps around the publish
\* interval.
NextTemp ==
    \/ Advance(TempSteps, MaxAdvance)
    \/ Tmp112Event(Temps)

SpecTemp == Init /\ [][NextTemp]_vars

\* The button alone, with time advancing in steps around the hold time.
NextButton ==
    \/ Advance(ButtonSteps, MaxAdvance)
    \/ ButtonPress
    \/ ButtonRelease
    \/ ButtonHoldTimer

SpecButton == Init /\ [][NextButton]_vars

\* The accelerometer alone, fed every vector of AllVectors.
NextAcc ==
    \/ Advance(CoarseSteps, MaxCoarse)
    \/ Lis2dh12Event(AllVectors)

SpecAcc == Init /\ [][NextAcc]_vars

\* The DAC driver alone, on a handle of any content.
InitDac ==
    /\ now = 0
    /\ n_adv = 0
    /\ phase = "Idle"
    /\ hold_task = NoTask
    /\ n_press = 0
    /\ button_click_count = 0
    /\ button_hold_count = 0
    /\ tick_start_button_press = 0
    /\ button_hold_event = FALSE
    /\ tick_temperature_report = InitialReport
    /\ last_published_temperature = NaN
    /\ last_face = TWR_DICE_FACE_UNKNOWN
    /\ vec = <<0, 0, 0>>
    /\ last_orient = <<>>
    /\ tmp112_update_interval = UpdateIntervalArg("tmp112", "init")
    /\ lis2dh12_update_interval = UpdateIntervalArg("lis2dh12", "init")
    /\ exit_task = RegisterExitTask(0)
    /\ ev = Ev("init", 0, "")
    /\ wr = <<>>
    /\ cycle_log = <<>>
    /\ n_clicked = 0
    /\ samples = 0
    /\ last_sample_tick = 0
    /\ sample_gap = 0
    /\ emitted = FALSE
    /\ last_emit_tick = 0
    /\ emit_gap = 0
    /\ last_emitted = 0
    /\ exit_runs = 0
    /\ tasks = AppTasks.tab
    /\ next_seq = AppTasks.nseq
    /\ invoked = <<>>
    /\ killed = {}
    /\ hdac \in Handles
    /\ dac_call = NoCall

NextDac ==
    \/ DacInit
    \/ DacDeInit
    \/ DacStop

SpecDac == InitDac /\ [][NextDac]_vars

\* The thermometer with time advancing around the publish interval, and the
\* other events of the node.
GateTemps == {320, 323}
GateVectors == {<<0, 0, 10>>}

NextGate ==
    \/ Advance(TempSteps, MaxCoarse)
    \/ Tmp112Event(GateTemps)
    \/ ButtonPress
    \/ ButtonRelease
    \/ ButtonHoldTimer
    \/ Lis2dh12Event(GateVectors)
    \/ BatteryEvent
    \/ RunExitTask

SpecGate == Init /\ [][NextGate]_vars

\* The scheduler alone, from an empty table, with time advancing in steps of
\* the size of the delays.
InitSched ==
    /\ now = 0
    /\ n_adv = 0
    /\ phase = "Idle"
    /\ hold_task = NoTask
    /\ n_press = 0
    /\ button_click_count = 0
    /\ button_hold_count = 0
    /\ tick_start_button_press = 0
    /\ button_hold_event = FALSE
    /\ tick_temperature_report = InitialReport
    /\ last_published_temperature = NaN
    /\ last_face = TWR_DICE_FACE_UNKNOWN
    /\ vec = <<0, 0, 0>>
    /\ last_orient = <<>>
    /\ tmp112_update_interval = UpdateIntervalArg("tmp112", "init")
    /\ lis2dh12_update_interval = UpdateIntervalArg("lis2dh12", "init")
    /\ exit_task = RegisterExitTask(0)
    /\ ev = Ev("init", 0, "")
    /\ wr = <<>>
    /\ cycle_log = <<>>
    /\ n_clicked = 0
    /\ samples = 0
    /\ last_sample_tick = 0
    /\ sample_gap = 0
    /\ emitted = FALSE
    /\ last_emit_tick = 0
    /\ emit_gap = 0
    /\ last_emitted = 0
    /\ exit_runs = 0
    /\ tasks = EmptyTable
    /\ next_seq = 1
    /\ invoked = <<>>
    /\ killed = {}
    /\ hdac = ZeroHandle
    /\ dac_call = NoCall

NextSched ==
    \/ Advance(SchedSteps, MaxTicks)
    \/ Register
    \/ Unregister
    \/ RunDue

SpecSched == InitSched /\ [][NextSched]_vars

\* The tasks of application_init under the scheduler, with time advancing in
\* sampling intervals and service windows.
PollSteps == {TEMPERATURE_UPDATE_SERVICE_INTERVAL, SERVICE_MODE_INTERVAL}

NextPoll ==
    \/ Advance(PollSteps, MaxAdvance)
    \/ RunDue

SpecPoll == Init /\ [][NextPoll]_vars

\* The button alone, started in the state the node is in after 65534 click
\* cycles and 65534 hold cycles.
InitWrap ==
    /\ now = 0
    /\ n_adv = 0
    /\ phase = "Idle"
    /\ hold_task = NoTask
    /\ n_press = 0
    /\ button_click_count = UINT16_MOD - 2
    /\ button_hold_count = UINT16_MOD - 2
    /\ tick_start_button_press = 0
    /\ button_hold_event = FALSE
    /\ tick_temperature_report = InitialReport
    /\ last_published_temperature = NaN
    /\ last_face = TWR_DICE_FACE_UNKNOWN
    /\ vec = <<0, 0, 0>>
    /\ last_orient = <<>>
    /\ tmp112_update_interval = UpdateIntervalArg("tmp112", "init")
    /\ lis2dh12_update_interval = UpdateIntervalArg("lis2dh12", "init")
    /\ exit_task = RegisterExitTask(0)
    /\ ev = Ev("init", 0, "")
    /\ wr = <<>>
    /\ cycle_log = <<>>
    /\ n_clicked = 0
    /\ samples = 0
    /\ last_sample_tick = 0
    /\ sample_gap = 0
    /\ emitted = FALSE
    /\ last_emit_tick = 0
    /\ emit_gap = 0
    /\ last_emitted = 0
    /\ exit_runs = 0
    /\ tasks = AppTasks.tab
    /\ next_seq = AppTasks.nseq
    /\ invoked = <<>>
    /\ killed = {}
    /\ hdac = ZeroHandle
    /\ dac_call = NoCall

SpecWrap == InitWrap /\ [][NextButton]_vars

----------------------------------------------------------------------------
(* Properties of the publish gate (checked under SpecTemp).                *)

\* The last step handled a successfully read temperature sample.
TmpOk == ev.type = "tmp112" /\ ev.tag = "ok"

\* The last step wrote a Temperature message.
TmpEmitted == ev.type = "tmp112" /\ wr # <<>>

\* |v - w| >= 0.2 degree, for v and w in sensor steps.
Far(v, w) == 10 * Abs(v - w) >= PUB_DIFFERENCE_TENTHS * STEPS_PER_DEGREE

\* C1: a successfully read sample v at tick t writes a Temperature message
\* (and then exactly the message of v) if and only if nothing was emitted
\* before, or t >= the next-allowed tick, or something was emitted before and
\* |v - last emitted value| >= 0.2.
C1_EmitIff ==
    [][(ev'.type = "tmp112" /\ ev'.tag = "ok") =>
        /\ wr' \in {<<>>, <<Msg("Temperature", ev'.num)>>}
        /\ (wr' # <<>>) <=>
              \/ ~emitted
              \/ now >= tick_temperature_report
              \/ (emitted /\ Far(ev'.num, last_emitted))]_vars

\* A sample arrived before the next-allowed tick, at least 0.2 away from the
\* last emitted value, and was emitted.
C1_Witness ==
    /\ TmpEmitted
    /\ samples = 2
    /\ emit_gap > 0
    /\ emit_gap < TEMPERATURE_PUB_INTERVAL

\* C2: after the handler emits for a sample v at tick t, the gate holds
\* last_published_temperature = v and
\* tick_temperature_report = t + TEMPERATURE_PUB_INTERVAL.
C2_GateAfterEmit ==
    TmpEmitted =>
        /\ wr = <<Msg("Temperature", ev.num)>>
        /\ last_published_temperature = Float(ev.num)
        /\ tick_temperature_report = now + TEMPERATURE_PUB_INTERVAL

\* An emission at a tick after start that is not the first one.
C2_Witness == TmpEmitted /\ now > 0 /\ samples = 2 /\ emit_gap > 0

\* C3: the first successfully read sample is emitted, whatever its value and
\* the tick at which it arrives.
C3_FirstEmits ==
    (TmpOk /\ samples = 1) => wr = <<Msg("Temperature", ev.num)>>

\* The first successful sample arrived after start and was emitted.
C3_Witness == TmpOk /\ samples = 1 /\ now > 0 /\ wr # <<>>

\* C4 as claimed: when an emission follows a successful sample by no more
\* than one update interval, it follows the previous emission by at most
\* TEMPERATURE_PUB_INTERVAL ticks.
C4_Original ==
    (TmpEmitted /\ sample_gap <= TEMPERATURE_UPDATE_NORMAL_INTERVAL)
        => emit_gap <= TEMPERATURE_PUB_INTERVAL

\* C4, amended: once a sample was read successfully, something was emitted
\* and the last emission is less than TEMPERATURE_PUB_INTERVAL ticks older
\* than the last successfully read sample; so an emission follows the
\* previous one by less than TEMPERATURE_PUB_INTERVAL ticks plus the time
\* since the previous successfully read sample.
C4_Staleness ==
    /\ samples > 0 =>
          /\ emitted
          /\ last_emit_tick <= last_sample_tick
          /\ last_sample_tick - last_emit_tick < TEMPERATURE_PUB_INTERVAL
    /\ TmpEmitted => emit_gap < TEMPERATURE_PUB_INTERVAL + sample_gap

\* A sample arrived after the next-allowed tick had passed and was emitted,
\* more than TEMPERATURE_PUB_INTERVAL ticks after the previous emission.
C4_Witness == TmpEmitted /\ emit_gap > TEMPERATURE_PUB_INTERVAL

----------------------------------------------------------------------------
(* Properties of the button (checked under SpecButton and SpecWrap).       *)

\* The last step was a release edge that ended a press.
Released == ev.type = "release" /\ ev.tag # "Idle"

\* C5: a Press followed by a Release before the hold time has elapsed writes
\* exactly one Button message and neither a Button_hold nor a
\* Button_hold_duration message.
C5_Click ==
    (Released /\ now - tick_start_button_press < HOLD_TIME) =>
        /\ Len(cycle_log) = 1
        /\ cycle_log[1].kind = "Button"
        /\ wr = cycle_log

\* A press was released after some time, before the hold time.
C5_Witness ==
    /\ Released
    /\ now - tick_start_button_press > 0
    /\ now - tick_start_button_press < HOLD_TIME
    /\ Len(cycle_log) = 1

\* C6: a Press, the hold timer elapsing, and a Release write exactly one
\* Button_hold and then exactly one Button_hold_duration message, with a
\* duration of at least the hold time, and no Button message.
C6_Hold ==
    (ev.type = "release" /\ ev.tag = "HeldReported") =>
        /\ Len(cycle_log) = 2
        /\ cycle_log[1].kind = "Button_hold"
        /\ cycle_log[2].kind = "Button_hold_duration"
        /\ cycle_log[2].val >= HOLD_TIME
        /\ wr = <<cycle_log[2]>>

\* A held press was released some time after the hold was reported.
C6_Witness ==
    /\ ev.type = "release"
    /\ ev.tag = "HeldReported"
    /\ Len(cycle_log) = 2
    /\ cycle_log[2].val > HOLD_TIME

\* C7: a Release while Idle writes nothing and changes neither the
\* application's button state nor the driver's.
C7_IdleRelease ==
    [][(phase = "Idle" /\ ev'.type = "release") =>
        /\ wr' = <<>>
        /\ UNCHANGED <<buttonVars, driverVars, cycle_log>>]_vars

\* A Release arrived while Idle after a press cycle that ended with a
\* Button_hold_duration message.
C7_Witness ==
    /\ ev.type = "release"
    /\ ev.tag = "Idle"
    /\ button_hold_event
    /\ Len(cycle_log) = 2

\* C8 as claimed: a counter at the largest uint16_t value stays there.
C8_Saturate ==
    [][/\ button_click_count = UINT16_MOD - 1
            => button_click_count' = UINT16_MOD - 1
       /\ button_hold_count = UINT16_MOD - 1
            => button_hold_count' = UINT16_MOD - 1]_vars

----------------------------------------------------------------------------
(* Properties of the service mode (checked under Spec).                    *)

\* C9: both sensors start with the service interval; once the service-window
\* task has run, both have the normal interval; the task runs at most once.
C9_ServiceWindow ==
    /\ exit_runs <= 1
    /\ exit_runs = 0 =>
          /\ tmp112_update_interval = TEMPERATURE_UPDATE_SERVICE_INTERVAL
          /\ lis2dh12_update_interval = ACCELEROMETER_UPDATE_SERVICE_INTERVAL
    /\ exit_runs >= 1 =>
          /\ tmp112_update_interval = TEMPERATURE_UPDATE_NORMAL_INTERVAL
          /\ lis2dh12_update_interval = ACCELEROMETER_UPDATE_NORMAL_INTERVAL

\* The task has run, and a further service window has passed since it was due.
C9_Witness ==
    /\ exit_runs = 1
    /\ now >= 2 * SERVICE_MODE_INTERVAL
    /\ tmp112_update_interval = TEMPERATURE_UPDATE_NORMAL_INTERVAL
    /\ lis2dh12_update_interval = ACCELEROMETER_UPDATE_NORMAL_INTERVAL

\* C10: a sensor with the normal interval keeps it in every step.
C10_OneWay ==
    [][/\ tmp112_update_interval = TEMPERATURE_UPDATE_NORMAL_INTERVAL
            => tmp112_update_interval' = TEMPERATURE_UPDATE_NORMAL_INTERVAL
       /\ lis2dh12_update_interval = ACCELEROMETER_UPDATE_NORMAL_INTERVAL
            => lis2dh12_update_interval' = ACCELEROMETER_UPDATE_NORMAL_INTERVAL]_vars

\* Button presses, a hold, sensor samples and a battery update were handled
\* with both sensors at the normal interval.
C10_Witness ==
    /\ tmp112_update_interval = TEMPERATURE_UPDATE_NORMAL_INTERVAL
    /\ lis2dh12_update_interval = ACCELEROMETER_UPDATE_NORMAL_INTERVAL
    /\ ev.type = "battery"
    /\ button_hold_count > 0
    /\ tick_start_button_press > exit_task.due
    /\ samples > 0
    /\ last_sample_tick > exit_task.due
    /\ last_face # TWR_DICE_FACE_UNKNOWN

----------------------------------------------------------------------------
(* Orientation.                                                            *)

\* The last step delivered an acceleration update whose read succeeded.
AccOk == ev.type = "lis2dh12" /\ ev.tag = "ok"

\* C11: an acceleration update whose read succeeds writes one Orientation
\* message with the new face and stores it in last_face when the face differs
\* from last_face, and writes nothing and keeps last_face when it is the
\* same; so a run of samples of one face is reported once, on its first.
C11_OnlyOnChange ==
    [][(ev'.type = "lis2dh12" /\ ev'.tag = "ok") =>
         IF ev'.num # last_face
         THEN wr' = <<Msg("Orientation", ev'.num)>> /\ last_face' = ev'.num
         ELSE wr' = <<>> /\ last_face' = last_face]_vars

\* A sample of the face already reported, a known one, was not reported
\* again.
C11_Witness ==
    /\ AccOk
    /\ wr = <<>>
    /\ last_face = ev.num
    /\ last_face # TWR_DICE_FACE_UNKNOWN

\* The axis (1 = X, 2 = Y, 3 = Z) and the sign of a face.
FaceAxis(f) == CASE f \in {2, 5} -> 1 [] f \in {3, 4} -> 2 [] f \in {1, 6} -> 3

FaceSign(f) == IF f \in {1, 2, 3} THEN 1 ELSE -1

\* Axis a of v is large enough and strictly larger than the other two.
Dominant(v, a) ==
    /\ Abs(v[a]) >= DICE_MIN_MAGNITUDE
    /\ \A o \in {1, 2, 3} \ {a} : Abs(v[a]) > Abs(v[o])

\* C12: after a successful read the face held for the vector is the face of
\* its dominant signed axis, and Unknown when no axis is dominant; the vector
\* (0,0,+1g) gives the up face 1, (0,0,-1g) the down face 6 and (0,0,0)
\* Unknown.
C12_Classify ==
    AccOk =>
        /\ ev.num = last_face
        /\ last_face # TWR_DICE_FACE_UNKNOWN =>
               /\ Dominant(vec, FaceAxis(last_face))
               /\ vec[FaceAxis(last_face)] * FaceSign(last_face) > 0
        /\ last_face = TWR_DICE_FACE_UNKNOWN =>
               \A a \in {1, 2, 3} : ~Dominant(vec, a)
        /\ vec = <<0, 0, 10>> => last_face = 1
        /\ vec = <<0, 0, -10>> => last_face = 6
        /\ vec = <<0, 0, 0>> => last_face = TWR_DICE_FACE_UNKNOWN

\* A tilted vector was classified by its largest axis, the negative Y axis.
C12_Witness ==
    /\ AccOk
    /\ vec = <<4, -10, 4>>
    /\ last_face = 4

\* C13: an update event of the thermometer, the accelerometer or the battery
\* module whose read fails writes no message and changes nothing of the
\* application's state: the publish gate, last_face, the button counters,
\* the update intervals and the service-mode task.
C13_ReadFailure ==
    [][(ev'.tag = "fail" /\ ev'.type \in {"tmp112", "lis2dh12", "battery"}) =>
         /\ wr' = <<>>
         /\ UNCHANGED <<dacVars, schedVars, gateVars, last_face, vec, buttonVars, pollVars,
                        exit_task, driverVars>>]_vars

\* A thermometer read failed at a tick at which a publication was due by
\* time, and each of the other two reads can fail as well.
C13_Witness ==
    /\ ev.type = "tmp112"
    /\ ev.tag = "fail"
    /\ emitted
    /\ now >= tick_temperature_report

----------------------------------------------------------------------------
(* Press.                                                                  *)

\* The last step was a press of the idle button.
PressInIdle == ev.type = "press" /\ ev.tag = "Idle"

\* C20 as stated: a press of the idle button records the current tick,
\* clears button_hold_event and emits a PressStarted message.
C20_Original ==
    PressInIdle =>
        /\ tick_start_button_press = now
        /\ ~button_hold_event
        /\ wr # <<>>

\* C20: a press of the idle button records the current tick in
\* tick_start_button_press, clears button_hold_event and writes no message.
C20_PressRecords ==
    PressInIdle =>
        /\ tick_start_button_press = now
        /\ ~button_hold_event
        /\ wr = <<>>

\* A press after start that follows a reported hold, whose flag it cleared.
C20_Witness ==
    /\ PressInIdle
    /\ now > 0
    /\ button_hold_count > 0

----------------------------------------------------------------------------
(* The scheduler.                                                          *)

\* The slots of the tasks rescheduled after every firing by the interval of
\* their registration.
Periodic ==
    {i \in Slots : tasks[i].active /\ tasks[i].handler \in {"noop", "kill", "spawn"}}

\* C14: the due tick of every active periodic task is the due tick of its
\* registration plus its interval times the number of its firings so far,
\* however late run_due was called.
C14_NoDrift ==
    \A i \in Periodic :
        tasks[i].due = tasks[i].first_due + tasks[i].fires * tasks[i].interval

\* run_due has just fired, later than its due tick, a task for the second
\* time at least.
C14_Witness ==
    /\ ev.type = "run_due"
    /\ \E k \in 1 .. Len(invoked) :
           /\ invoked[k].due < now
           /\ invoked[k].id \in Periodic
           /\ tasks[invoked[k].id].seq = invoked[k].seq
           /\ tasks[invoked[k].id].fires >= 2

\* The registration numbers of the tasks in a log of invocations.
SeqsOf(log) == {log[k].seq : k \in 1 .. Len(log)}

\* C15: run_due(now) invokes only tasks that were active and due at the
\* call, each at most once, in the order of their due ticks and, among equal
\* due ticks, of their registration; and it invokes every such task that no
\* handler of the run unregistered.
C15_RunDue ==
    [][ev'.type = "run_due" =>
         /\ \A k \in 1 .. Len(invoked') :
                LET e == invoked'[k]
                IN  /\ tasks[e.id].active
                    /\ tasks[e.id].seq = e.seq
                    /\ tasks[e.id].due = e.due
                    /\ e.due <= now
         /\ \A k \in 1 .. Len(invoked') - 1 :
                \/ invoked'[k].due < invoked'[k + 1].due
                \/ /\ invoked'[k].due = invoked'[k + 1].due
                   /\ invoked'[k].seq < invoked'[k + 1].seq
         /\ \A i \in Slots :
                (tasks[i].active /\ tasks[i].due <= now
                    /\ tasks[i].seq \notin killed') =>
                tasks[i].seq \in SeqsOf(invoked')]_vars

\* run_due invoked two tasks of one due tick in the order of their
\* registration, against the order of their slots, and left a task that was
\* not due.
C15_Witness ==
    /\ ev.type = "run_due"
    /\ Len(invoked) = 2
    /\ invoked[1].due = invoked[2].due
    /\ invoked[1].id > invoked[2].id
    /\ \E i \in Slots : tasks[i].active /\ tasks[i].fires = 0 /\ tasks[i].due > now

\* The handler of the k-th task of the log of an invocation.
HandlerAt(tab, log, k) ==
    IF tab[log[k].id].seq = log[k].seq THEN tab[log[k].id].handler ELSE ""

\* C16: unregistering an inactive id changes nothing of the scheduler; and
\* run_due invokes no task that was unregistered before, while
\* exit_service_mode_task, which unregisters itself, is unregistered after
\* its invocation, and so is never invoked again.
C16_Unregister ==
    [][/\ (ev'.type = "unregister" /\ ev'.tag = "inactive") =>
            UNCHANGED <<tasks, next_seq, killed, pollVars>>
       /\ ev'.type = "run_due" =>
            \A k \in 1 .. Len(invoked') :
                /\ invoked'[k].seq \notin killed
                /\ HandlerAt(tasks, invoked', k) = "exit" =>
                       invoked'[k].seq \in killed']_vars

\* exit_service_mode_task has run and unregistered itself before, and a
\* later run_due, at a tick at which it would be due again, invoked other
\* tasks only.
C16_Witness ==
    /\ ev.type = "run_due"
    /\ tmp112_update_interval = TEMPERATURE_UPDATE_NORMAL_INTERVAL
    /\ invoked # <<>>
    /\ SeqsOf(invoked) \cap killed = {}
    /\ now >= 2

\* C17: a registration with a free slot creates a task due at now + delay
\* and leaves the other tasks as they are; one without a free slot fails
\* with CapacityExceeded, the only failure, and changes no task.
C17_Register ==
    [][ev'.type = "register" =>
         IF FreeSlots(tasks) # {}
         THEN /\ ev'.tag = "ok"
              /\ next_seq' = next_seq + 1
              /\ \E i \in FreeSlots(tasks) :
                     /\ tasks'[i].active
                     /\ tasks'[i].seq = next_seq
                     /\ tasks'[i].due = now + ev'.num
                     /\ \A j \in Slots \ {i} : tasks'[j] = tasks[j]
         ELSE /\ ev'.tag = "CapacityExceeded"
              /\ UNCHANGED <<tasks, next_seq, killed, pollVars>>]_vars

\* A registration failed on a full table, after start.
C17_Witness ==
    /\ ev.type = "register"
    /\ ev.tag = "CapacityExceeded"
    /\ FreeSlots(tasks) = {}
    /\ now > 0

\* The interval a sensor's task is due to have in service mode and after.
ServiceInterval(handler) ==
    IF handler = "tmp112" THEN TEMPERATURE_UPDATE_SERVICE_INTERVAL
    ELSE ACCELEROMETER_UPDATE_SERVICE_INTERVAL

NormalInterval(handler) ==
    IF handler = "tmp112" THEN TEMPERATURE_UPDATE_NORMAL_INTERVAL
    ELSE ACCELEROMETER_UPDATE_NORMAL_INTERVAL

\* The slots of the sensors' sampling tasks.
SensorTasks ==
    {i \in Slots : tasks[i].active /\ tasks[i].handler \in {"tmp112", "lis2dh12"}}

\* The sensor of slot i was in normal mode before the step.
WasNormal(i) ==
    IF tasks[i].handler = "tmp112"
    THEN tmp112_update_interval = TEMPERATURE_UPDATE_NORMAL_INTERVAL
    ELSE lis2dh12_update_interval = ACCELEROMETER_UPDATE_NORMAL_INTERVAL

\* C18: a run_due, the one that runs exit_service_mode_task included, leaves
\* the due tick of a sensor's task it does not invoke as it is; a sensor's
\* task it invokes is due again after the normal interval if the switch to
\* normal mode came before the invocation, and after the service interval
\* otherwise.
C18_PendingKept ==
    [][ev'.type = "run_due" =>
         \A i \in SensorTasks :
            LET log == invoked'
                at == {k \in 1 .. Len(log) : log[k].seq = tasks[i].seq}
                switched == \E a \in 1 .. Len(log) : \E b \in at :
                                a < b /\ HandlerAt(tasks, log, a) = "exit"
            IN  tasks'[i].due =
                    IF at = {} THEN tasks[i].due
                    ELSE IF WasNormal(i) \/ switched
                    THEN tasks[i].due + NormalInterval(tasks[i].handler)
                    ELSE tasks[i].due + ServiceInterval(tasks[i].handler)]_vars

\* In normal mode the thermometer's task fired at a due tick set in service
\* mode, which the switch left as it was, and is due again one normal
\* interval after it.
C18_Witness ==
    /\ ev.type = "run_due"
    /\ tmp112_update_interval = TEMPERATURE_UPDATE_NORMAL_INTERVAL
    /\ \E k \in 1 .. Len(invoked) :
           /\ HandlerAt(tasks, invoked, k) = "tmp112"
           /\ invoked[k].due % TEMPERATURE_UPDATE_NORMAL_INTERVAL # 0
           /\ tasks[invoked[k].id].due =
                  invoked[k].due + TEMPERATURE_UPDATE_NORMAL_INTERVAL
    /\ \A k \in 1 .. Len(invoked) : invoked[k].seq \notin killed

\* C19: in a run_due whose handlers register or unregister tasks, no task is
\* invoked twice, only tasks that were active and due at the call are
\* invoked (none registered during the run), and every task that was active
\* and due at the call is invoked unless a handler of the run unregistered
\* it.
C19_MutationSafe ==
    [][(ev'.type = "run_due" /\ (killed' # killed \/ next_seq' # next_seq)) =>
         /\ Cardinality(SeqsOf(invoked')) = Len(invoked')
         /\ SeqsOf(invoked') \subseteq {tasks[i].seq : i \in DueSet(tasks, now)}
         /\ \A q \in SeqsOf(invoked') : q < next_seq
         /\ \A i \in DueSet(tasks, now) :
                \/ tasks[i].seq \in SeqsOf(invoked')
                \/ tasks[i].seq \in killed' \ killed]_vars

\* In one run_due a handler unregistered the task of a slot and a handler
\* invoked after it registered a task, which took that slot and was not
\* invoked.
C19_Witness ==
    /\ ev.type = "run_due"
    /\ \E a \in 1 .. Len(invoked) : \E b \in 1 .. Len(invoked) :
           /\ a < b
           /\ HandlerAt(tasks, invoked, a) = "kill"
           /\ HandlerAt(tasks, invoked, b) = "spawn"
           /\ LET j == (invoked[a].id % SchedCapacity) + 1
              IN  /\ tasks[j].active
                  /\ tasks[j].seq > MaxRegister
                  /\ tasks[j].fires = 0
                  /\ tasks[j].first_due = now + 1

----------------------------------------------------------------------------
(* The button's transitions.                                               *)

\* C21: when the hold timer elapses while Pressed, button_hold_count is
\* incremented by one (as a uint16_t), button_hold_event is set, exactly one
\* Button_hold message with the incremented count is written, and
\* button_click_count is unchanged.
C21_HoldFired ==
    [][(ev'.type = "hold" /\ phase = "Pressed") =>
         /\ button_hold_count' = (button_hold_count + 1) % UINT16_MOD
         /\ button_hold_event'
         /\ wr' = <<Msg("Button_hold", button_hold_count')>>
         /\ button_click_count' = button_click_count]_vars

\* The hold timer elapsed for the second press, and the second hold was
\* reported.
C21_Witness ==
    /\ ev.type = "hold"
    /\ phase = "HeldReported"
    /\ button_hold_count = 2
    /\ button_hold_event
    /\ now - tick_start_button_press >= HOLD_TIME

\* C22: a Release in Pressed increments button_click_count by one and writes
\* exactly one Button message with the incremented count, which is the
\* number of Button messages since startup; button_hold_count is unchanged.
C22_Clicked ==
    [][(ev'.type = "release" /\ phase = "Pressed") =>
         /\ ~button_hold_event
         /\ button_click_count' = button_click_count + 1
         /\ wr' = <<Msg("Button", button_click_count')>>
         /\ n_clicked' = n_clicked + 1
         /\ wr'[1].val = n_clicked'
         /\ button_hold_count' = button_hold_count]_vars

\* The second click since startup was reported with the value 2.
C22_Witness ==
    /\ ev.type = "release"
    /\ ev.tag = "Pressed"
    /\ n_clicked = 2
    /\ wr = <<Msg("Button", 2)>>

\* C23: a Release after the hold was reported writes exactly one
\* Button_hold_duration message with the tick of the Release minus the tick
\* recorded at the most recent Press, and changes neither counter.
C23_HoldReleased ==
    [][(ev'.type = "release" /\ phase = "HeldReported") =>
         /\ wr' = <<Msg("Button_hold_duration", now' - tick_start_button_press)>>
         /\ now' = now
         /\ tick_start_button_press' = tick_start_button_press
         /\ button_click_count' = button_click_count
         /\ button_hold_count' = button_hold_count]_vars

\* The second press, which began after tick 0, was held and released later
\* than the hold time.
C23_Witness ==
    /\ ev.type = "release"
    /\ ev.tag = "HeldReported"
    /\ tick_start_button_press > 0
    /\ wr = <<Msg("Button_hold_duration", now - tick_start_button_press)>>
    /\ now - tick_start_button_press > HOLD_TIME

\* A Button_hold message was written since the last PRESS.
HoldSincePress ==
    \E k \in 1 .. Len(cycle_log) : cycle_log[k].kind = "Button_hold"

\* C24: button_hold_event is true exactly when a HOLD event was handled
\* after the most recent PRESS event, and a release edge (the RELEASE and
\* CLICK events) never changes it.
C24_HoldFlag ==
    /\ (button_hold_event <=> HoldSincePress)
    /\ [][/\ button_hold_event' <=> HoldSincePress'
          /\ ev'.type = "release" => button_hold_event' = button_hold_event]_vars

\* After the Release of a held press the button is idle and the flag is
\* still set.
C24_Witness ==
    /\ ev.type = "release"
    /\ ev.tag = "HeldReported"
    /\ phase = "Idle"
    /\ button_hold_event

----------------------------------------------------------------------------
(* The publish gate and the reported face.                                 *)

\* C25: a temperature event that writes no message leaves
\* tick_temperature_report and last_published_temperature as they are, and
\* so does every event of the button, the accelerometer, the battery module
\* and the service-mode task.
C25_GateFrame ==
    [][/\ (ev'.type = "tmp112" /\ wr' = <<>>) => UNCHANGED gateVars
       /\ ev'.type \in {"press", "release", "hold", "lis2dh12", "battery", "exit"}
             => UNCHANGED gateVars]_vars

\* After a publication and a click, a sample of another value, too close to
\* the published one and too early, was not published, and the gate holds
\* the published value.
C25_Witness ==
    /\ TmpOk
    /\ wr = <<>>
    /\ emitted
    /\ ev.num # last_emitted
    /\ last_published_temperature = Float(last_emitted)
    /\ tick_temperature_report = last_emit_tick + TEMPERATURE_PUB_INTERVAL
    /\ button_click_count > 0

\* tick_temperature_report is 0 before the first Temperature message and the
\* tick of the last one plus the publish interval after it.
ReportIsLastPlusInterval ==
    tick_temperature_report =
        IF emitted THEN last_emit_tick + TEMPERATURE_PUB_INTERVAL ELSE 0

\* C26: tick_temperature_report never decreases, and is in every state
\* either 0, with no Temperature message written yet, or the tick of the
\* most recent Temperature message plus 900000.
C26_ReportTick ==
    /\ ReportIsLastPlusInterval
    /\ [][/\ ReportIsLastPlusInterval'
          /\ tick_temperature_report' >= tick_temperature_report]_vars

\* A second Temperature message, later than the first, has moved the tick.
C26_Witness ==
    /\ TmpEmitted
    /\ emit_gap > 0
    /\ tick_temperature_report = now + TEMPERATURE_PUB_INTERVAL
    /\ tick_temperature_report > TEMPERATURE_PUB_INTERVAL

\* last_face is the face of the last Orientation message, and Unknown
\* before the first.
FaceIsLastReported ==
    last_face = IF last_orient = <<>> THEN TWR_DICE_FACE_UNKNOWN ELSE last_orient[1]

\* C27: the face of an Orientation message differs from the face of the
\* Orientation message before it, the first Orientation message does not
\* carry Unknown, and last_face is always the face of the last Orientation
\* message (Unknown before the first).
C27_Orientation ==
    /\ FaceIsLastReported
    /\ [][/\ FaceIsLastReported'
          /\ (ev'.type = "lis2dh12" /\ wr' # <<>>) =>
                /\ Len(wr') = 1
                /\ wr'[1].kind = "Orientation"
                /\ wr'[1].val # (IF last_orient = <<>> THEN TWR_DICE_FACE_UNKNOWN
                                 ELSE last_orient[1])]_vars

\* After Orientation messages of known faces, the face became Unknown and
\* was reported as such.
C27_Witness ==
    /\ AccOk
    /\ wr = <<Msg("Orientation", TWR_DICE_FACE_UNKNOWN)>>
    /\ last_orient = <<TWR_DICE_FACE_UNKNOWN>>
    /\ last_face = TWR_DICE_FACE_UNKNOWN

----------------------------------------------------------------------------
(* The DAC handle.                                                         *)

\* C28: HAL_DAC_Init(NULL) returns HAL_ERROR and changes nothing; on the
\* handle, whatever it holds, HAL_DAC_Init returns HAL_OK and leaves State
\* READY and ErrorCode NONE, and it unlocks the handle and calls
\* HAL_DAC_MspInit exactly when State was RESET; HAL_DAC_DeInit on the handle
\* returns HAL_OK and leaves State RESET, ErrorCode NONE and the handle
\* unlocked, so that a HAL_DAC_Init that follows it calls HAL_DAC_MspInit.
C28_DacLifecycle ==
    [][LET c == dac_call'
       IN  /\ (c.fn = "Init" /\ c.null) =>
                 c.ret = "HAL_ERROR" /\ hdac' = hdac /\ ~c.msp
           /\ (c.fn = "Init" /\ ~c.null) =>
                 /\ c.ret = "HAL_OK"
                 /\ hdac'.State = "READY"
                 /\ hdac'.ErrorCode = "NONE"
                 /\ c.msp <=> hdac.State = "RESET"
                 /\ hdac'.Lock = IF hdac.State = "RESET" THEN "UNLOCKED"
                                 ELSE hdac.Lock
           /\ (c.fn = "DeInit" /\ ~c.null) =>
                 /\ c.ret = "HAL_OK"
                 /\ hdac' = [State |-> "RESET", ErrorCode |-> "NONE",
                             Lock |-> "UNLOCKED"]
           /\ (c.fn = "Init" /\ ~c.null /\ c.prev = "DeInit") => c.msp]_dacVars

\* HAL_DAC_Init has run once more on a handle that was initialised, reset by
\* HAL_DAC_DeInit, and so called HAL_DAC_MspInit again.
C28_Witness ==
    /\ dac_call = [fn |-> "Init", null |-> FALSE, ret |-> "HAL_OK", msp |-> TRUE,
                   prev |-> "DeInit"]
    /\ hdac = [State |-> "READY", ErrorCode |-> "NONE", Lock |-> "UNLOCKED"]

============================================================================
